---- MODULE Spec2Model ----
(***************************************************************************)
(* BlockCertify: the CertificateRegistry contract                          *)
(* (contracts/CertificateRegistry.sol) as a state machine, one action per  *)
(* external function.  A transaction either runs to its end or reverts:    *)
(* a revert leaves the contract storage as it was and only the caller      *)
(* sees the revert string.  BlockchainService.issueCertificate (the        *)
(* backend's way into the contract) is modelled as a request that first    *)
(* sends its transaction and later sees it mined.                          *)
(***************************************************************************)
EXTENDS Integers, Sequences, FiniteSets, TLC

(* ---------------- bounds of the model ---------------- *)
MaxCerts == 2
NumHashes == 2
MaxTime == 2
NumRequests == 3
MaxDate == 2
NumRouteCalls == 3
MaxUploads == 3

(* ---------------- addresses and strings ---------------- *)
ZeroAddress == "0x0"
owner == "owner"
institution == "institution"
student == "student"
verifier == "verifier"

Accounts == {owner, institution, student, verifier}
Address == Accounts \cup {ZeroAddress}
RegisterTargets == {ZeroAddress, institution, verifier}
Recipients == {ZeroAddress, student}
\* callers of the onlyOwner functions: the owner and one account that is not
OwnerCallers == {owner, institution}
\* callers of the verify functions, which read msg.sender only for the event
VerifyCallers == {verifier}
\* callers of issueCertificate: the two addresses that can be registered
IssueCallers == {institution, verifier}
\* callers of revokeCertificate: the two institutions, the owner and the recipient
RevokeCallers == {institution, verifier, owner, student}

HashPool == <<"QmTest123", "QmTest456", "QmTest789", "QmTest000", "QmTest111",
             "QmTest222">>
Hashes == {""} \cup {HashPool[i] : i \in 1..NumHashes}
Names == {"", "Test University"}
RegistrationNumbers == {"", "TU123456"}
Payloads == {[metadataHash |-> "QmMeta456", certificateType |-> "Bachelor's Degree",
              courseName |-> "Computer Science", grade |-> "A"]}
CertIds == 0..(MaxCerts + 1)
\* the certificate types the Certificate collection accepts
CertificateTypes == {"degree", "diploma", "certificate", "transcript", "other"}

(* ---------------- revert strings ---------------- *)
OK == "ok"
NotOwner == "Ownable: caller is not the owner"
InvalidInstitutionAddress == "Invalid institution address"
AlreadyRegistered == "Institution already registered"
NameRequired == "Institution name required"
RegistrationNumberRequired == "Registration number required"
NotRegisteredOrActive == "Not a registered or active institution"
InvalidRecipient == "Invalid recipient address"
HashRequired == "Certificate hash required"
HashExists == "Certificate hash already exists"
DoesNotExist == "Certificate does not exist"
NotValid == "Certificate is not valid"
InstitutionNotActive == "Issuing institution is not active"
HashNotFound == "Certificate not found"
OnlyIssuer == "Only issuing institution can revoke"
AlreadyRevoked == "Certificate already revoked"
NotRegistered == "Institution not registered"

(* the error kinds of the specification, by revert string *)
Unauthorized == {NotRegisteredOrActive}
InvalidInput == {InvalidInstitutionAddress, NameRequired, RegistrationNumberRequired,
                 InvalidRecipient, HashRequired}
DuplicateContent == {HashExists}
NotFound == {DoesNotExist, HashNotFound}
Invalid == {NotValid, InstitutionNotActive}
Forbidden == {OnlyIssuer}

(* ---------------- storage defaults ---------------- *)
NoInstitution ==
  [name |-> "", registrationNumber |-> "", isActive |-> FALSE,
   isRegistered |-> FALSE, registeredAt |-> 0]

NoCertificate ==
  [id |-> 0, institution |-> ZeroAddress, recipient |-> ZeroAddress,
   certificateHash |-> "", metadataHash |-> "", issuedAt |-> 0,
   isValid |-> FALSE, certificateType |-> "", courseName |-> "", grade |-> ""]

NoCall ==
  [op |-> "none", sender |-> ZeroAddress, addr |-> ZeroAddress, id |-> 0,
   hash |-> "", flag |-> FALSE, name |-> "", registrationNumber |-> "",
   result |-> OK, ret |-> NoCertificate]

NoRequest ==
  [pc |-> "idle", sender |-> ZeroAddress, recipient |-> ZeroAddress,
   hash |-> "", result |-> OK, certificateId |-> 0]

\* HTTP statuses the routes answer with
Success == 200
Created == 201
BadRequest == 400
ForbiddenStatus == 403
NotFoundStatus == 404
ServerError == 500
\* no answer sent yet
NoResponse == 0

\* a Date that is not set
NoDate == 0

\* what findOne answers without a document (null), and the schema's defaults
NoDocument ==
  [present |-> FALSE, institution |-> ZeroAddress, recipient |-> ZeroAddress,
   hash |-> "", status |-> "issued", isValid |-> TRUE, verificationCount |-> 0,
   lastVerifiedAt |-> NoDate, verifiedBy |-> << >>]

\* a route handler that has not been called; onLedger is history: what the
\* contract's verifyCertificate would have answered when the handler read;
\* ids and listed are certificateIds and certificates of the listing routes
NoRouteCall ==
  [route |-> "none", pc |-> "idle", user |-> ZeroAddress, certificateId |-> 0,
   hash |-> "", count |-> 0, at |-> NoDate, status |-> NoResponse,
   onLedger |-> OK, ids |-> << >>, listed |-> << >>]

\* no answer of the in-memory certificate routes yet
NoReply == [route |-> "none", id |-> "", status |-> NoResponse, verified |-> FALSE]

VARIABLES
  institutions,            \* mapping(address => Institution)
  certificates,            \* mapping(uint256 => Certificate)
  certificateHashToId,     \* mapping(string => uint256)
  recipientCertificates,   \* mapping(address => uint256[])
  institutionCertificates, \* mapping(address => uint256[])
  certificateIds,          \* Counters.Counter _certificateIds
  now,                     \* block.timestamp of the current block
  lastCall,                \* the last transaction and what its caller saw
  issuedLog,               \* history: the records as written by each successful issue
  revokedIds,              \* history: the ids whose revoke succeeded
  requests,                \* BlockchainService.issueCertificate calls in flight
  mirror,                  \* the Certificate collection of the document store
  date,                    \* the server's clock (new Date())
  routeCalls,              \* the backend's route handlers, each at its await
  memoryCertificates,      \* let certificates = [] of certificates-memory.js
  certificateIdCounter,    \* let certificateIdCounter = 1
  memoryReply              \* the last answer of the in-memory routes

ledger == <<institutions, certificates, certificateHashToId, recipientCertificates,
            institutionCertificates, certificateIds>>
vars == <<institutions, certificates, certificateHashToId, recipientCertificates,
          institutionCertificates, certificateIds, now, lastCall, issuedLog,
          revokedIds, requests, mirror, date, routeCalls, memoryCertificates,
          certificateIdCounter, memoryReply>>

\* the module state of certificates-memory.js and its last answer
memory == <<memoryCertificates, certificateIdCounter, memoryReply>>

\* what lives outside the contract
offchain == <<requests, mirror, date, routeCalls, memory>>

(* ---------------- modifiers and views ---------------- *)
onlyOwner_AnyCaller(sender) == TRUE

onlyOwner(sender) == sender = owner

onlyRegisteredInstitution_ActiveNotChecked(sender) ==
  institutions[sender].isRegistered

onlyRegisteredInstitution(sender) ==
  institutions[sender].isRegistered /\ institutions[sender].isActive

certificateExists_ZeroAllowed(id) == id <= certificateIds

certificateExists(id) == id > 0 /\ id <= certificateIds

isValidInstitution(a) ==
  institutions[a].isRegistered /\ institutions[a].isActive

getTotalCertificates == certificateIds

(* ---------------- registerInstitution ---------------- *)
RegisterOutcome_NoRegisteredCheck(sender, a, name, regNo) ==
  IF ~onlyOwner(sender) THEN NotOwner
  ELSE IF a = ZeroAddress THEN InvalidInstitutionAddress
  ELSE IF name = "" THEN NameRequired
  ELSE IF regNo = "" THEN RegistrationNumberRequired
  ELSE OK

RegisterOutcome(sender, a, name, regNo) ==
  IF ~onlyOwner(sender) THEN NotOwner
  ELSE IF a = ZeroAddress THEN InvalidInstitutionAddress
  ELSE IF institutions[a].isRegistered THEN AlreadyRegistered
  ELSE IF name = "" THEN NameRequired
  ELSE IF regNo = "" THEN RegistrationNumberRequired
  ELSE OK

registerInstitution(sender, a, name, regNo) ==
  LET r == RegisterOutcome(sender, a, name, regNo) IN
  /\ institutions' =
       IF r = OK
       THEN [institutions EXCEPT ![a] =
               [name |-> name, registrationNumber |-> regNo, isActive |-> TRUE,
                isRegistered |-> TRUE, registeredAt |-> now]]
       ELSE institutions
  /\ lastCall' = [NoCall EXCEPT !.op = "registerInstitution", !.sender = sender,
                                !.addr = a, !.name = name,
                                !.registrationNumber = regNo, !.result = r]
  /\ UNCHANGED <<certificates, certificateHashToId, recipientCertificates,
                 institutionCertificates, certificateIds, now, issuedLog,
                 revokedIds, offchain>>

(* ---------------- setInstitutionStatus ---------------- *)
SetStatusOutcome(sender, a) ==
  IF ~onlyOwner(sender) THEN NotOwner
  ELSE IF ~institutions[a].isRegistered THEN NotRegistered
  ELSE OK

\* institutions[_institution].isActive = _isActive
InstitutionsAfterSetStatus_Toggle(a, isActive) ==
  [institutions EXCEPT ![a].isActive = ~@]

InstitutionsAfterSetStatus_NeverReactivated(a, isActive) ==
  [institutions EXCEPT ![a].isActive = @ /\ isActive]

InstitutionsAfterSetStatus(a, isActive) ==
  [institutions EXCEPT ![a].isActive = isActive]

setInstitutionStatus(sender, a, isActive) ==
  LET r == SetStatusOutcome(sender, a) IN
  /\ institutions' =
       IF r = OK THEN InstitutionsAfterSetStatus(a, isActive)
       ELSE institutions
  /\ lastCall' = [NoCall EXCEPT !.op = "setInstitutionStatus", !.sender = sender,
                                !.addr = a, !.flag = isActive, !.result = r]
  /\ UNCHANGED <<certificates, certificateHashToId, recipientCertificates,
                 institutionCertificates, certificateIds, now, issuedLog,
                 revokedIds, offchain>>

(* ---------------- issueCertificate ---------------- *)
IssueOutcome_NoDuplicateCheck(sender, recipient, hash) ==
  IF ~onlyRegisteredInstitution(sender) THEN NotRegisteredOrActive
  ELSE IF recipient = ZeroAddress THEN InvalidRecipient
  ELSE IF hash = "" THEN HashRequired
  ELSE OK

IssueOutcome(sender, recipient, hash) ==
  IF ~onlyRegisteredInstitution(sender) THEN NotRegisteredOrActive
  ELSE IF recipient = ZeroAddress THEN InvalidRecipient
  ELSE IF hash = "" THEN HashRequired
  ELSE IF certificateHashToId[hash] # 0 THEN HashExists
  ELSE OK

\* _certificateIds.increment(); newCertificateId = _certificateIds.current()
newCertificateId_BeforeIncrement == certificateIds

newCertificateId == certificateIds + 1

NewCertificate(sender, recipient, hash, p) ==
  [id |-> newCertificateId, institution |-> sender, recipient |-> recipient,
   certificateHash |-> hash, metadataHash |-> p.metadataHash, issuedAt |-> now,
   isValid |-> TRUE, certificateType |-> p.certificateType,
   courseName |-> p.courseName, grade |-> p.grade]

HashIndexAfterIssue_NotWritten(hash, id) == certificateHashToId

HashIndexAfterIssue(hash, id) == [certificateHashToId EXCEPT ![hash] = id]

\* recipientCertificates[_recipient].push(newCertificateId)
RecipientListAfterIssue_Assigned(recipient, id) ==
  [recipientCertificates EXCEPT ![recipient] = <<id>>]

RecipientListAfterIssue(recipient, id) ==
  [recipientCertificates EXCEPT ![recipient] = Append(@, id)]

\* institutionCertificates[msg.sender].push(newCertificateId)
InstitutionListAfterIssue(sender, id) ==
  [institutionCertificates EXCEPT ![sender] = Append(@, id)]

\* the storage writes of a call that passed every require (lines 120-138)
IssueWrites(sender, recipient, hash, p) ==
  /\ certificateIds' = certificateIds + 1
  /\ certificates' = [certificates EXCEPT ![newCertificateId] =
                        NewCertificate(sender, recipient, hash, p)]
  /\ certificateHashToId' = HashIndexAfterIssue(hash, newCertificateId)
  /\ recipientCertificates' = RecipientListAfterIssue(recipient, newCertificateId)
  /\ institutionCertificates' = InstitutionListAfterIssue(sender, newCertificateId)
  /\ issuedLog' = Append(issuedLog, NewCertificate(sender, recipient, hash, p))

IssueTransaction_IncrementFirst(sender, recipient, hash, p) ==
  LET r == IssueOutcome(sender, recipient, hash) IN
  /\ r = OK => certificateIds < MaxCerts
  /\ IF r = OK
     THEN IssueWrites(sender, recipient, hash, p)
     ELSE /\ certificateIds' = certificateIds + 1
          /\ UNCHANGED <<certificates, certificateHashToId, recipientCertificates,
                         institutionCertificates, issuedLog>>
  /\ lastCall' = [NoCall EXCEPT !.op = "issueCertificate", !.sender = sender,
                                !.addr = recipient, !.hash = hash, !.result = r,
                                !.id = IF r = OK THEN newCertificateId ELSE 0]
  /\ UNCHANGED <<institutions, now, revokedIds>>

\* one issueCertificate transaction: it reverts or it writes everything
IssueTransaction(sender, recipient, hash, p) ==
  LET r == IssueOutcome(sender, recipient, hash) IN
  /\ r = OK => certificateIds < MaxCerts
  /\ IF r = OK
     THEN IssueWrites(sender, recipient, hash, p)
     ELSE UNCHANGED <<certificates, certificateHashToId, recipientCertificates,
                      institutionCertificates, certificateIds, issuedLog>>
  /\ lastCall' = [NoCall EXCEPT !.op = "issueCertificate", !.sender = sender,
                                !.addr = recipient, !.hash = hash, !.result = r,
                                !.id = IF r = OK THEN newCertificateId ELSE 0]
  /\ UNCHANGED <<institutions, now, revokedIds>>

issueCertificate(sender, recipient, hash, p) ==
  /\ IssueTransaction(sender, recipient, hash, p)
  /\ UNCHANGED offchain

(* ---------------- verifyCertificate ---------------- *)
VerifyOutcome_InstitutionNotChecked(id) ==
  IF ~certificateExists(id) THEN DoesNotExist
  ELSE IF ~certificates[id].isValid THEN NotValid
  ELSE OK

VerifyOutcome(id) ==
  IF ~certificateExists(id) THEN DoesNotExist
  ELSE IF ~certificates[id].isValid THEN NotValid
  ELSE IF ~institutions[certificates[id].institution].isActive THEN InstitutionNotActive
  ELSE OK

VerifyReturn(id) ==
  IF VerifyOutcome(id) = OK THEN certificates[id] ELSE NoCertificate

\* one verifyCertificate transaction: it writes no storage
VerifyTransaction(sender, id) ==
  /\ lastCall' = [NoCall EXCEPT !.op = "verifyCertificate", !.sender = sender,
                                !.id = id, !.result = VerifyOutcome(id),
                                !.ret = VerifyReturn(id)]
  /\ UNCHANGED <<institutions, certificates, certificateHashToId,
                 recipientCertificates, institutionCertificates, certificateIds,
                 now, issuedLog, revokedIds>>

verifyCertificate(sender, id) ==
  /\ VerifyTransaction(sender, id)
  /\ UNCHANGED offchain

(* ---------------- verifyCertificateByHash ---------------- *)
VerifyByHashOutcome_NoDelegation(hash) ==
  IF certificateHashToId[hash] = 0 THEN HashNotFound ELSE OK

VerifyByHashOutcome(hash) ==
  IF certificateHashToId[hash] = 0 THEN HashNotFound
  ELSE VerifyOutcome(certificateHashToId[hash])

VerifyByHashReturn(hash) ==
  IF VerifyByHashOutcome(hash) = OK THEN VerifyReturn(certificateHashToId[hash])
  ELSE NoCertificate

verifyCertificateByHash(sender, hash) ==
  /\ lastCall' = [NoCall EXCEPT !.op = "verifyCertificateByHash", !.sender = sender,
                                !.hash = hash, !.result = VerifyByHashOutcome(hash),
                                !.ret = VerifyByHashReturn(hash)]
  /\ UNCHANGED <<institutions, certificates, certificateHashToId,
                 recipientCertificates, institutionCertificates, certificateIds,
                 now, issuedLog, revokedIds, offchain>>

(* ---------------- revokeCertificate ---------------- *)
RevokeOutcome_IssuerNotChecked(sender, id) ==
  IF ~certificateExists(id) THEN DoesNotExist
  ELSE IF ~onlyRegisteredInstitution(sender) THEN NotRegisteredOrActive
  ELSE IF ~certificates[id].isValid THEN AlreadyRevoked
  ELSE OK

RevokeOutcome_ValidNotChecked(sender, id) ==
  IF ~certificateExists(id) THEN DoesNotExist
  ELSE IF ~onlyRegisteredInstitution(sender) THEN NotRegisteredOrActive
  ELSE IF certificates[id].institution # sender THEN OnlyIssuer
  ELSE OK

RevokeOutcome(sender, id) ==
  IF ~certificateExists(id) THEN DoesNotExist
  ELSE IF ~onlyRegisteredInstitution(sender) THEN NotRegisteredOrActive
  ELSE IF certificates[id].institution # sender THEN OnlyIssuer
  ELSE IF ~certificates[id].isValid THEN AlreadyRevoked
  ELSE OK

\* Certificate storage cert = certificates[id]; cert.isValid = false
CertificatesAfterRevoke_MemoryCopy(id) == certificates

CertificatesAfterRevoke_Deleted(id) == [certificates EXCEPT ![id] = NoCertificate]

CertificatesAfterRevoke(id) == [certificates EXCEPT ![id].isValid = FALSE]

\* one revokeCertificate transaction: it reverts or it clears the flag
RevokeTransaction(sender, id) ==
  LET r == RevokeOutcome(sender, id) IN
  /\ certificates' = IF r = OK THEN CertificatesAfterRevoke(id) ELSE certificates
  /\ revokedIds' = IF r = OK THEN revokedIds \cup {id} ELSE revokedIds
  /\ lastCall' = [NoCall EXCEPT !.op = "revokeCertificate", !.sender = sender,
                                !.id = id, !.result = r]
  /\ UNCHANGED <<institutions, certificateHashToId, recipientCertificates,
                 institutionCertificates, certificateIds, now, issuedLog>>

revokeCertificate(sender, id) ==
  /\ RevokeTransaction(sender, id)
  /\ UNCHANGED offchain

(* ---------------- events ---------------- *)
NoEvent == [name |-> "none", address |-> ZeroAddress, id |-> 0]

\* the log of a transaction: what its emit statement wrote, nothing when the
\* transaction reverted or its function has no emit statement
EventOf(call) ==
  IF call.result # OK THEN NoEvent
  ELSE IF call.op = "registerInstitution"
       THEN [name |-> "InstitutionRegistered", address |-> call.addr, id |-> 0]
  ELSE IF call.op = "setInstitutionStatus"
       THEN [name |-> "InstitutionStatusChanged", address |-> call.addr, id |-> 0]
  ELSE IF call.op = "issueCertificate"
       THEN [name |-> "CertificateIssued", address |-> call.sender, id |-> call.id]
  ELSE IF call.op \in {"verifyCertificate", "verifyCertificateByHash"}
       THEN [name |-> "CertificateVerified", address |-> call.sender,
             id |-> call.ret.id]
  ELSE NoEvent

\* the functions that write the contract's institutions and certificates
LedgerWrites ==
  {"registerInstitution", "setInstitutionStatus", "issueCertificate",
   "revokeCertificate"}

(* ---------------- the chain ---------------- *)
\* a new block: block.timestamp grows
MineBlock ==
  /\ now < MaxTime
  /\ now' = now + 1
  /\ UNCHANGED <<institutions, certificates, certificateHashToId,
                 recipientCertificates, institutionCertificates, certificateIds,
                 lastCall, issuedLog, revokedIds, offchain>>

\* the contract right after deployment
Deployed ==
  /\ institutions = [a \in Address |-> NoInstitution]
  /\ certificates = [i \in CertIds |-> NoCertificate]
  /\ certificateHashToId = [h \in Hashes |-> 0]
  /\ recipientCertificates = [a \in Address |-> << >>]
  /\ institutionCertificates = [a \in Address |-> << >>]
  /\ certificateIds = 0
  /\ now = 1
  /\ lastCall = NoCall
  /\ issuedLog = << >>
  /\ revokedIds = {}

\* no document stored, no route called
NoUploads ==
  /\ memoryCertificates = << >>
  /\ certificateIdCounter = 1
  /\ memoryReply = NoReply

NoBackend ==
  /\ mirror = << >>
  /\ date = 1
  /\ routeCalls = << >>
  /\ NoUploads

Init ==
  /\ Deployed
  /\ requests = << >>
  /\ NoBackend

Next ==
  \/ \E s \in OwnerCallers, a \in RegisterTargets, n \in Names, g \in RegistrationNumbers :
       registerInstitution(s, a, n, g)
  \/ \E s \in OwnerCallers, a \in RegisterTargets, b \in BOOLEAN :
       setInstitutionStatus(s, a, b)
  \/ \E s \in IssueCallers, t \in Recipients, h \in Hashes, p \in Payloads :
       issueCertificate(s, t, h, p)
  \/ \E s \in VerifyCallers, i \in CertIds : verifyCertificate(s, i)
  \/ \E s \in VerifyCallers, h \in Hashes : verifyCertificateByHash(s, h)
  \/ \E s \in RevokeCallers, i \in CertIds : revokeCertificate(s, i)

\* every transaction in one block
Spec == Init /\ [][Next]_vars

\* the same calls spread over blocks with growing timestamps
NextClock == Next \/ MineBlock

SpecClock == Init /\ [][NextClock]_vars

\* the directory over blocks with growing timestamps: every external function,
\* the certificate functions on one fingerprint
NextDirectory ==
  \/ \E s \in OwnerCallers, a \in RegisterTargets, n \in Names, g \in RegistrationNumbers :
       registerInstitution(s, a, n, g)
  \/ \E s \in OwnerCallers, a \in RegisterTargets, b \in BOOLEAN :
       setInstitutionStatus(s, a, b)
  \/ \E s \in IssueCallers, p \in Payloads :
       issueCertificate(s, student, HashPool[1], p)
  \/ \E s \in VerifyCallers : verifyCertificate(s, 1)
  \/ \E s \in VerifyCallers : verifyCertificateByHash(s, HashPool[1])
  \/ \E s \in RevokeCallers : revokeCertificate(s, 1)
  \/ MineBlock

SpecDirectory == Init /\ [][NextDirectory]_vars

(* ---------------- BlockchainService.issueCertificate ---------------- *)
\* const tx = await this.certificateRegistry.issueCertificate(...)
Send(r) ==
  /\ requests[r].pc = "idle"
  /\ requests' = [requests EXCEPT ![r].pc = "sent"]
  /\ UNCHANGED <<institutions, certificates, certificateHashToId,
                 recipientCertificates, institutionCertificates, certificateIds,
                 now, lastCall, issuedLog, revokedIds, mirror, date, routeCalls,
                 memory>>

\* const receipt = await tx.wait(): the transaction is executed in a block; the
\* service returns the id of the CertificateIssued event or throws the revert
Mine(r, p) ==
  /\ requests[r].pc = "sent"
  /\ IssueTransaction(requests[r].sender, requests[r].recipient, requests[r].hash, p)
  /\ requests' = [requests EXCEPT ![r].pc = "done",
                                  ![r].result = lastCall'.result,
                                  ![r].certificateId = lastCall'.id]
  /\ UNCHANGED <<mirror, date, routeCalls, memory>>

RegisteredInstitution(active) ==
  [name |-> "Test University", registrationNumber |-> "TU123456",
   isActive |-> active, isRegistered |-> TRUE, registeredAt |-> 1]

\* the contract after the owner registered both institutions (and possibly
\* deactivated the second), with NumRequests issuance requests about to start
InitRace ==
  /\ \E active \in BOOLEAN :
       /\ institutions = [a \in Address |->
            IF a = institution THEN RegisteredInstitution(TRUE)
            ELSE IF a = verifier THEN RegisteredInstitution(active)
            ELSE NoInstitution]
       /\ lastCall = IF active
            THEN [NoCall EXCEPT !.op = "registerInstitution", !.sender = owner,
                                !.addr = verifier, !.name = "Test University",
                                !.registrationNumber = "TU123456"]
            ELSE [NoCall EXCEPT !.op = "setInstitutionStatus", !.sender = owner,
                                !.addr = verifier]
  /\ certificates = [i \in CertIds |-> NoCertificate]
  /\ certificateHashToId = [h \in Hashes |-> 0]
  /\ recipientCertificates = [a \in Address |-> << >>]
  /\ institutionCertificates = [a \in Address |-> << >>]
  /\ certificateIds = 0
  /\ now = 1
  /\ issuedLog = << >>
  /\ revokedIds = {}
  /\ requests \in [1..NumRequests ->
       {[NoRequest EXCEPT !.sender = s, !.recipient = student, !.hash = h] :
          s \in IssueCallers, h \in Hashes \ {""}}]
  /\ NoBackend

NextRace ==
  \/ \E r \in 1..NumRequests : Send(r)
  \/ \E r \in 1..NumRequests, p \in Payloads : Mine(r, p)

SpecRace == InitRace /\ [][NextRace]_vars

(* ---------------- a deactivated institution ---------------- *)

\* the institution has issued a certificate and revoked it, and the owner has
\* then deactivated the institution
IssuedThenRevoked ==
  [id |-> 1, institution |-> institution, recipient |-> student,
   certificateHash |-> HashPool[1], metadataHash |-> "QmMeta456",
   issuedAt |-> 1, isValid |-> FALSE, certificateType |-> "Bachelor's Degree",
   courseName |-> "Computer Science", grade |-> "A"]

InitReactivation ==
  /\ institutions = [a \in Address |->
       IF a = institution THEN RegisteredInstitution(FALSE) ELSE NoInstitution]
  /\ certificates = [i \in CertIds |->
       IF i = 1 THEN IssuedThenRevoked ELSE NoCertificate]
  /\ certificateHashToId = [h \in Hashes |-> IF h = HashPool[1] THEN 1 ELSE 0]
  /\ recipientCertificates = [a \in Address |-> IF a = student THEN <<1>> ELSE << >>]
  /\ institutionCertificates =
       [a \in Address |-> IF a = institution THEN <<1>> ELSE << >>]
  /\ certificateIds = 1
  /\ now = 1
  /\ lastCall = [NoCall EXCEPT !.op = "setInstitutionStatus", !.sender = owner,
                               !.addr = institution]
  /\ issuedLog = <<[IssuedThenRevoked EXCEPT !.isValid = TRUE]>>
  /\ revokedIds = {1}
  /\ requests = << >>
  /\ NoBackend

\* the contract's functions from there on
SpecReactivation == InitReactivation /\ [][Next]_vars

(***************************************************************************)
(* The backend: the Express routes that write the Certificate collection   *)
(* (the Mirror).  A handler runs from one await to the next in one step;   *)
(* between two awaits of one handler the other handlers, the other clients *)
(* of the contract and the clock may move.  Every contract transaction of  *)
(* the backend is signed by the one wallet of BlockchainService.           *)
(***************************************************************************)
\* this.signer: the wallet of PRIVATE_KEY, here the institution's
signer == institution

\* req.user.address of the authenticated callers with role 'institution'
RouteUsers == {institution, verifier}

\* generateCertificateHash(certificateData): keccak256 of the JSON text, which
\* holds institution = :address and issuedAt = new Date().toISOString(); for
\* one recipient and course the fingerprint is a function of the address and
\* the date, different for different pairs
generateCertificateHash(address, d) ==
  HashPool[(IF address = institution THEN 0 ELSE MaxDate) + d]

\* the fingerprints the issue route can compute
RouteHashes ==
  {generateCertificateHash(a, d) : a \in RouteUsers, d \in 1..MaxDate}

\* the arguments the route hands to the contract; without a description the
\* metadata fingerprint is the fingerprint (JSON.stringify drops undefined)
RoutePayload(hash) ==
  [metadataHash |-> hash, certificateType |-> "degree",
   courseName |-> "Computer Science", grade |-> "A"]

\* new Certificate({...}) of the issue route
NewDocument(address, recipient, hash) ==
  [NoDocument EXCEPT !.present = TRUE, !.institution = address,
                     !.recipient = recipient, !.hash = hash]

\* certificateSchema.methods.isValidCertificate
isValidCertificate(doc) == doc.isValid /\ doc.status = "issued"

\* certificateSchema.statics.findByCertificateId: the document stored under
\* the id, if any
findByCertificateId(id) ==
  IF id \in DOMAIN mirror THEN mirror[id] ELSE NoDocument

\* a request arrives and its handler starts: routeCalls lists the handlers in
\* the order of arrival, at most NumRouteCalls of them
Arrives(rc) ==
  /\ Len(routeCalls) < NumRouteCalls
  /\ routeCalls' = Append(routeCalls, rc)

\* POST /api/institutions/:address/certificates up to the end of
\* await blockchainService.issueCertificate(...)
IssueRouteLedger(user, address) ==
  LET hash == generateCertificateHash(address, date) IN
  /\ IF user # address
     THEN /\ Arrives([NoRouteCall EXCEPT !.route = "issue", !.pc = "done",
                                         !.user = user, !.status = ForbiddenStatus])
          /\ UNCHANGED <<institutions, certificates, certificateHashToId,
                         recipientCertificates, institutionCertificates,
                         certificateIds, now, lastCall, issuedLog, revokedIds>>
     ELSE /\ IssueTransaction(signer, student, hash, RoutePayload(hash))
          /\ Arrives([NoRouteCall EXCEPT
                  !.route = "issue", !.user = user, !.hash = hash,
                  !.certificateId = lastCall'.id,
                  !.pc = IF lastCall'.result = OK THEN "save" ELSE "done",
                  !.status = IF lastCall'.result = OK THEN NoResponse ELSE ServerError])
  /\ UNCHANGED <<requests, mirror, date, memory>>

\* await certificate.save() and the answer: 201, or 500 from the catch when
\* the save is rejected (the document store is down, or a unique index refuses)
IssueRouteSave(c, stored) ==
  LET rc == routeCalls[c]
      saved == /\ stored
               /\ rc.certificateId \notin DOMAIN mirror
               /\ \A i \in DOMAIN mirror : mirror[i].hash # rc.hash
  IN
  /\ c \in DOMAIN routeCalls
  /\ rc.route = "issue" /\ rc.pc = "save"
  /\ mirror' = IF saved
               THEN (rc.certificateId :> NewDocument(rc.user, student, rc.hash)) @@ mirror
               ELSE mirror
  /\ routeCalls' = [routeCalls EXCEPT ![c].pc = "done",
                      ![c].status = IF saved THEN Created ELSE ServerError]
  /\ UNCHANGED <<ledger, now, lastCall, issuedLog, revokedIds, requests, date,
                 memory>>

\* POST /api/blockchain/revoke-certificate up to the ownership check:
\* blockchainService.verifyCertificate, taken to return what the contract
\* function returns, throws on a revert (500); 403 for another institution
RevokeRouteCheck(user, id) ==
  /\ VerifyTransaction(signer, id)
  /\ Arrives([NoRouteCall EXCEPT
          !.route = "revoke", !.user = user, !.certificateId = id,
          !.pc = IF VerifyOutcome(id) = OK /\ certificates[id].institution = user
                 THEN "revoke" ELSE "done",
          !.status = IF VerifyOutcome(id) # OK THEN ServerError
                     ELSE IF certificates[id].institution # user THEN ForbiddenStatus
                     ELSE NoResponse])
  /\ UNCHANGED <<requests, mirror, date, memory>>

\* await blockchainService.revokeCertificate(certificateId)
RevokeRouteLedger(c) ==
  LET rc == routeCalls[c] IN
  /\ c \in DOMAIN routeCalls
  /\ rc.route = "revoke" /\ rc.pc = "revoke"
  /\ RevokeTransaction(signer, rc.certificateId)
  /\ routeCalls' = [routeCalls EXCEPT
       ![c].pc = IF lastCall'.result = OK THEN "update" ELSE "done",
       ![c].status = IF lastCall'.result = OK THEN NoResponse ELSE ServerError]
  /\ UNCHANGED <<requests, mirror, date, memory>>

\* await Certificate.findOneAndUpdate({certificateId}, {status: 'revoked',
\* 'verification.isValid': false}) and the answer
RevokeRouteMirror(c, stored) ==
  LET rc == routeCalls[c] IN
  /\ c \in DOMAIN routeCalls
  /\ rc.route = "revoke" /\ rc.pc = "update"
  /\ mirror' = IF stored /\ rc.certificateId \in DOMAIN mirror
               THEN [mirror EXCEPT ![rc.certificateId].status = "revoked",
                                   ![rc.certificateId].isValid = FALSE]
               ELSE mirror
  /\ routeCalls' = [routeCalls EXCEPT ![c].pc = "done",
                      ![c].status = IF stored THEN Success ELSE ServerError]
  /\ UNCHANGED <<ledger, now, lastCall, issuedLog, revokedIds, requests, date,
                 memory>>

\* POST /api/certificates/verify/:id up to the save of recordVerification:
\* the document is read, 404 without one, 400 unless isValidCertificate();
\* recordVerification then counts and dates the handler's copy
VerifyRouteFind(id) ==
  LET doc == findByCertificateId(id) IN
  /\ Arrives(
       IF ~doc.present
       THEN [NoRouteCall EXCEPT !.route = "verify", !.certificateId = id,
                                !.pc = "done", !.status = NotFoundStatus]
       ELSE IF ~isValidCertificate(doc)
       THEN [NoRouteCall EXCEPT !.route = "verify", !.certificateId = id,
                                !.pc = "done", !.status = BadRequest]
       ELSE [NoRouteCall EXCEPT !.route = "verify", !.certificateId = id,
                                !.pc = "save", !.user = verifier,
                                !.count = doc.verificationCount + 1,
                                !.at = date, !.onLedger = VerifyOutcome(id)])
  /\ UNCHANGED <<ledger, now, lastCall, issuedLog, revokedIds, requests, mirror, date,
                 memory>>

\* the document after this.save() of recordVerification: the modified paths
\* are written, verificationCount and lastVerifiedAt as the handler's copy has
\* them, the new verifiedBy entry pushed on the stored list
DocumentAfterRecord(doc, rc) ==
  [doc EXCEPT !.verificationCount = rc.count,
              !.lastVerifiedAt = rc.at,
              !.verifiedBy = Append(@, [address |-> rc.user, verifiedAt |-> rc.at,
                                        verifierType |-> "web"])]

\* return this.save() of recordVerification and the answer
VerifyRouteSave(c, stored) ==
  LET rc == routeCalls[c] IN
  /\ c \in DOMAIN routeCalls
  /\ rc.route = "verify" /\ rc.pc = "save"
  /\ mirror' = IF stored
               THEN [mirror EXCEPT ![rc.certificateId] = DocumentAfterRecord(@, rc)]
               ELSE mirror
  /\ routeCalls' = [routeCalls EXCEPT ![c].pc = "done",
                      ![c].status = IF stored THEN Success ELSE ServerError]
  /\ UNCHANGED <<ledger, now, lastCall, issuedLog, revokedIds, requests, date,
                 memory>>

\* the server's clock moves on
Tick ==
  /\ date < MaxDate
  /\ date' = date + 1
  /\ UNCHANGED <<ledger, now, lastCall, issuedLog, revokedIds, requests, mirror,
                 routeCalls, memory>>

\* the type query of GET /api/blockchain/address/:address/certificates;
\* GET /api/institutions/:address/certificates is the 'institution' case
\* (a first page holds every id of the model)
ListTypes == {"recipient", "institution"}

\* the addresses the listing routes are called for
ListAddresses == {institution, student}

\* the listing routes up to the end of await get...Certificates(address): the
\* ids the contract lists for the address
ListRouteIds(type, address) ==
  LET certificateIdList == IF type = "institution"
                           THEN institutionCertificates[address]
                           ELSE recipientCertificates[address]
  IN
  /\ Arrives([NoRouteCall EXCEPT
          !.route = "list", !.user = address, !.ids = certificateIdList,
          !.pc = IF certificateIdList = << >> THEN "done" ELSE "lookup",
          !.status = IF certificateIdList = << >> THEN Success ELSE NoResponse])
  /\ UNCHANGED <<ledger, now, lastCall, issuedLog, revokedIds, requests, mirror,
                 date, memory>>

\* one turn of the for loop: await blockchainService.verifyCertificate(id),
\* the certificate pushed on success, the catch only warns; after the last
\* id the answer, with certificateCount / pagination.total = the number of ids
ListRouteLookup(c) ==
  LET rc == routeCalls[c]
      id == rc.ids[rc.count + 1]
  IN
  /\ c \in DOMAIN routeCalls
  /\ rc.route = "list" /\ rc.pc = "lookup"
  /\ VerifyTransaction(signer, id)
  /\ routeCalls' = [routeCalls EXCEPT
       ![c].count = rc.count + 1,
       ![c].listed = IF VerifyOutcome(id) = OK THEN Append(rc.listed, id)
                     ELSE rc.listed,
       ![c].pc = IF rc.count + 1 = Len(rc.ids) THEN "done" ELSE "lookup",
       ![c].status = IF rc.count + 1 = Len(rc.ids) THEN Success ELSE NoResponse]
  /\ UNCHANGED <<requests, mirror, date, memory>>

\* the first certificate as the issue route left it in the contract
FirstCertificate ==
  [id |-> 1, institution |-> signer, recipient |-> student,
   certificateHash |-> generateCertificateHash(institution, 1),
   metadataHash |-> generateCertificateHash(institution, 1), issuedAt |-> 1, isValid |-> TRUE,
   certificateType |-> "degree", courseName |-> "Computer Science", grade |-> "A"]

\* the owner has registered the institution and the institution has issued
\* one certificate through the issue route: it is in the contract and in the
\* Certificate collection
InitBackend ==
  /\ institutions = [a \in Address |->
       IF a = institution THEN RegisteredInstitution(TRUE) ELSE NoInstitution]
  /\ certificates = [i \in CertIds |-> IF i = 1 THEN FirstCertificate ELSE NoCertificate]
  /\ certificateHashToId = [h \in Hashes \cup RouteHashes |->
       IF h = generateCertificateHash(institution, 1) THEN 1 ELSE 0]
  /\ recipientCertificates = [a \in Address |-> IF a = student THEN <<1>> ELSE << >>]
  /\ institutionCertificates = [a \in Address |-> IF a = signer THEN <<1>> ELSE << >>]
  /\ certificateIds = 1
  /\ now = 1
  /\ lastCall = [NoCall EXCEPT !.op = "issueCertificate", !.sender = signer,
                               !.addr = student, !.hash = generateCertificateHash(institution, 1),
                               !.id = 1]
  /\ issuedLog = <<FirstCertificate>>
  /\ revokedIds = {}
  /\ requests = << >>
  /\ mirror = (1 :> NewDocument(institution, student, generateCertificateHash(institution, 1)))
  /\ date = 1
  /\ routeCalls = << >>
  /\ NoUploads

\* the routes, the clock, and the contract's other clients: the owner setting
\* the institution's status and the institution revoking with its own wallet
NextBackend ==
  \/ \E u, a \in RouteUsers : IssueRouteLedger(u, a)
  \/ \E c \in 1..NumRouteCalls, stored \in BOOLEAN : IssueRouteSave(c, stored)
  \/ \E u \in RouteUsers, i \in 1..MaxCerts : RevokeRouteCheck(u, i)
  \/ \E c \in 1..NumRouteCalls : RevokeRouteLedger(c)
  \/ \E c \in 1..NumRouteCalls, stored \in BOOLEAN : RevokeRouteMirror(c, stored)
  \/ \E i \in 1..MaxCerts : VerifyRouteFind(i)
  \/ \E c \in 1..NumRouteCalls, stored \in BOOLEAN : VerifyRouteSave(c, stored)
  \/ Tick
  \/ \E b \in BOOLEAN : setInstitutionStatus(owner, institution, b)
  \/ \E i \in 1..MaxCerts : revokeCertificate(institution, i)

SpecBackend == InitBackend /\ [][NextBackend]_vars

\* the listing routes, the issue route, the clock, and the contract's other
\* clients
NextListing ==
  \/ \E t \in ListTypes, a \in ListAddresses : ListRouteIds(t, a)
  \/ \E c \in 1..NumRouteCalls : ListRouteLookup(c)
  \/ \E u, a \in RouteUsers : IssueRouteLedger(u, a)
  \/ \E c \in 1..NumRouteCalls, stored \in BOOLEAN : IssueRouteSave(c, stored)
  \/ Tick
  \/ \E b \in BOOLEAN : setInstitutionStatus(owner, institution, b)
  \/ \E i \in 1..MaxCerts : revokeCertificate(institution, i)

SpecListing == InitBackend /\ [][NextListing]_vars

(***************************************************************************)
(* certificates-memory.js: the certificate routes of a server started      *)
(* without a database.  A handler has no await before its last write, so   *)
(* each request is one step.                                               *)
(***************************************************************************)
\* String.prototype.padStart
RECURSIVE padStart(_, _, _)
padStart(str, targetLength, padString) ==
  IF Len(str) >= targetLength THEN str
  ELSE padStart(padString \o str, targetLength, padString)

\* `CERT-${certificateIdCounter.toString().padStart(6, '0')}`
CertificateId(counter) == "CERT-" \o padStart(ToString(counter), 6, "0")

\* the ids the routes are asked about
RequestedIds == {CertificateId(n) : n \in 1..MaxUploads}

\* recipientName of the uploads
RecipientNames == {"Alice", "Bob"}

\* new InMemoryCertificate(data): the id from the counter, status 'active'
InMemoryCertificate(data) ==
  [id |-> CertificateId(certificateIdCounter),
   recipientName |-> data.recipientName, status |-> "active"]

\* InMemoryCertificate.findById: the index of the first certificate with the
\* id, 0 when there is none
findById(id) ==
  IF \E k \in DOMAIN memoryCertificates : memoryCertificates[k].id = id
  THEN CHOOSE k \in DOMAIN memoryCertificates :
         /\ memoryCertificates[k].id = id
         /\ \A j \in 1..(k - 1) : memoryCertificates[j].id # id
  ELSE 0

\* certificate.save(): replaced in place when the id is stored, else pushed
save(cert) ==
  IF findById(cert.id) # 0
  THEN [memoryCertificates EXCEPT ![findById(cert.id)] = cert]
  ELSE Append(memoryCertificates, cert)

\* certificate.status = 'revoked' of DELETE /:id
RevokedInMemory_Toggled(cert) ==
  [cert EXCEPT !.status = IF @ = "active" THEN "revoked" ELSE "active"]

RevokedInMemory(cert) == [cert EXCEPT !.status = "revoked"]

\* POST /api/certificates/upload: 400 when validation fails, else the
\* certificate is constructed (the counter moves) and saved, 201
UploadCertificate(valid, name) ==
  /\ certificateIdCounter <= MaxUploads
  /\ IF valid
     THEN LET certificate == InMemoryCertificate([recipientName |-> name]) IN
          /\ certificateIdCounter' = certificateIdCounter + 1
          /\ memoryCertificates' = save(certificate)
          /\ memoryReply' = [route |-> "upload", id |-> certificate.id,
                             status |-> Created, verified |-> FALSE]
     ELSE /\ memoryReply' = [route |-> "upload", id |-> "",
                             status |-> BadRequest, verified |-> FALSE]
          /\ UNCHANGED <<memoryCertificates, certificateIdCounter>>
  /\ UNCHANGED <<ledger, now, lastCall, issuedLog, revokedIds, requests, mirror,
                 date, routeCalls>>

\* GET /api/certificates/verify/:id: 404 without the certificate, 400 unless
\* its status is 'active', else verified: true
VerifyInMemory(id) ==
  LET k == findById(id) IN
  /\ memoryReply' =
       IF k = 0
       THEN [route |-> "verify", id |-> id, status |-> NotFoundStatus,
             verified |-> FALSE]
       ELSE IF memoryCertificates[k].status # "active"
       THEN [route |-> "verify", id |-> id, status |-> BadRequest,
             verified |-> FALSE]
       ELSE [route |-> "verify", id |-> id, status |-> Success, verified |-> TRUE]
  /\ UNCHANGED <<ledger, now, lastCall, issuedLog, revokedIds, requests, mirror,
                 date, routeCalls, memoryCertificates, certificateIdCounter>>

\* DELETE /api/certificates/:id: 404 without the certificate, else its status
\* is set to 'revoked' and it is saved
RevokeInMemory(id) ==
  LET k == findById(id) IN
  /\ IF k = 0
     THEN /\ memoryReply' = [route |-> "revoke", id |-> id,
                             status |-> NotFoundStatus, verified |-> FALSE]
          /\ UNCHANGED memoryCertificates
     ELSE /\ memoryCertificates' = save(RevokedInMemory(memoryCertificates[k]))
          /\ memoryReply' = [route |-> "revoke", id |-> id, status |-> Success,
                             verified |-> FALSE]
  /\ UNCHANGED <<ledger, now, lastCall, issuedLog, revokedIds, requests, mirror,
                 date, routeCalls, certificateIdCounter>>

NextMemory ==
  \/ \E valid \in BOOLEAN, name \in RecipientNames : UploadCertificate(valid, name)
  \/ \E id \in RequestedIds : VerifyInMemory(id)
  \/ \E id \in RequestedIds : RevokeInMemory(id)

\* the server without a database: no contract call, no document store
SpecMemory == Init /\ [][NextMemory]_vars

(***************************************************************************)
(* Properties                                                              *)
(***************************************************************************)

\* C1: no two certificates, valid or revoked, ever carry the same fingerprint,
\* in storage or in the history of issues; an issueCertificate call whose
\* fingerprint was used by an earlier issue (by any institution, also when that
\* certificate has been revoked since) never succeeds, and it reverts with
\* "Certificate hash already exists" whenever the caller is a registered, active
\* institution and the recipient is not the zero address (the two checks that
\* come before the fingerprint check).
C1_FingerprintUnique ==
  /\ \A i, j \in 1..Len(issuedLog) :
       issuedLog[i].certificateHash = issuedLog[j].certificateHash => i = j
  /\ \A i, j \in CertIds :
       (/\ certificates[i] # NoCertificate
        /\ certificates[j] # NoCertificate
        /\ certificates[i].certificateHash = certificates[j].certificateHash) => i = j
  /\ lastCall.op = "issueCertificate" =>
       LET usedBefore ==
             \E k \in 1..Len(issuedLog) :
               /\ issuedLog[k].certificateHash = lastCall.hash
               /\ ~(lastCall.result = OK /\ k = Len(issuedLog))
       IN usedBefore =>
            /\ lastCall.result # OK
            /\ (institutions[lastCall.sender].isRegistered
                /\ institutions[lastCall.sender].isActive
                /\ lastCall.addr # ZeroAddress) => lastCall.result \in DuplicateContent

\* C1 witness: another institution issues the fingerprint of a revoked certificate
\* and is refused as a duplicate
C1_Witness ==
  /\ lastCall.op = "issueCertificate"
  /\ lastCall.result = HashExists
  /\ \E i \in 1..Len(issuedLog) :
       /\ issuedLog[i].certificateHash = lastCall.hash
       /\ issuedLog[i].institution # lastCall.sender
       /\ i \in revokedIds

\* C2: a certificate whose revoke succeeded stays revoked: in every later state
\* its isValid flag is false, verifyCertificate of its id and
\* verifyCertificateByHash of its fingerprint are Invalid, and a verify call
\* just made on it returned Invalid.
C2_RevocationPermanent ==
  /\ \A id \in revokedIds :
       /\ ~certificates[id].isValid
       /\ VerifyOutcome(id) \in Invalid
       /\ VerifyByHashOutcome(issuedLog[id].certificateHash) \in Invalid
  /\ (lastCall.op = "verifyCertificate" /\ lastCall.id \in revokedIds)
       => lastCall.result \in Invalid
  /\ (/\ lastCall.op = "verifyCertificateByHash"
      /\ \E id \in revokedIds : issuedLog[id].certificateHash = lastCall.hash)
       => lastCall.result \in Invalid

\* C2 witness: a verify of a revoked certificate after a later issue, with the
\* issuing institution active
C2_Witness ==
  /\ lastCall.op = "verifyCertificate"
  /\ lastCall.id \in revokedIds
  /\ lastCall.id < certificateIds
  /\ institutions[issuedLog[lastCall.id].institution].isActive
  /\ lastCall.result = NotValid

\* C3: a step creates a certificate only if it is an issueCertificate call whose
\* caller is registered and active when it is made; an issueCertificate call of
\* a caller that is not registered, or registered and deactivated, reverts with
\* "Not a registered or active institution" and writes nothing.
C3_IssueOnlyByAuthorized ==
  [][/\ (\/ certificateIds' # certificateIds
         \/ \E i \in CertIds : certificates[i] = NoCertificate
                               /\ certificates'[i] # NoCertificate)
          => /\ lastCall'.op = "issueCertificate"
             /\ lastCall'.result = OK
             /\ isValidInstitution(lastCall'.sender)
     /\ (/\ lastCall'.op = "issueCertificate"
         /\ lastCall' # lastCall
         /\ ~isValidInstitution(lastCall'.sender))
          => /\ lastCall'.result \in Unauthorized
             /\ UNCHANGED ledger]_vars

\* C3 witness: a deactivated institution is refused an issue that would
\* otherwise have gone through
C3_Witness ==
  /\ lastCall.op = "issueCertificate"
  /\ lastCall.result = NotRegisteredOrActive
  /\ institutions[lastCall.sender].isRegistered
  /\ ~institutions[lastCall.sender].isActive
  /\ lastCall.addr # ZeroAddress
  /\ lastCall.hash # ""
  /\ certificateHashToId[lastCall.hash] = 0

\* C4: the stored certificates are exactly those with ids 1..n, where
\* n = getTotalCertificates() is the number of issues that succeeded; the k-th
\* successful issue got id k; rejected issues and revokes leave n alone.
C4_IdsDense ==
  /\ getTotalCertificates = Len(issuedLog)
  /\ {i \in CertIds : certificates[i] # NoCertificate} = 1..Len(issuedLog)
  /\ \A k \in 1..Len(issuedLog) :
       /\ issuedLog[k].id = k
       /\ certificates[k].id = k
       /\ certificates[k].certificateHash = issuedLog[k].certificateHash
  /\ (lastCall.op = "issueCertificate" /\ lastCall.result = OK)
       => lastCall.id = Len(issuedLog)

\* C4 witness: two certificates issued, one of them revoked, and an issue just
\* rejected
C4_Witness ==
  /\ Len(issuedLog) = 2
  /\ certificateIds = 2
  /\ revokedIds # {}
  /\ lastCall.op = "issueCertificate"
  /\ lastCall.result # OK

\* C5: of the issuance requests in flight that carry the same fingerprint, at
\* most one ever succeeds, whatever the order in which their transactions are
\* mined; as soon as a request of a registered, active caller has completed,
\* exactly one has succeeded, and every other completed request of such a caller
\* failed with "Certificate hash already exists".
C5_OneWinnerPerFingerprint ==
  \A h \in Hashes \ {""} :
    LET done == {r \in 1..NumRequests : requests[r].hash = h /\ requests[r].pc = "done"}
        won == {r \in done : requests[r].result = OK}
        authorized(r) == /\ institutions[requests[r].sender].isRegistered
                         /\ institutions[requests[r].sender].isActive
    IN /\ Cardinality(won) <= 1
       /\ (\E r \in done : authorized(r)) => Cardinality(won) = 1
       /\ \A r \in done \ won :
            IF authorized(r) THEN requests[r].result \in DuplicateContent
            ELSE requests[r].result \in Unauthorized
       /\ \A r \in won : /\ authorized(r)
                         /\ requests[r].certificateId = certificateHashToId[h]
                         /\ requests[r].certificateId \in 1..certificateIds

\* C5 witness: three requests of the two institutions with one fingerprint, all
\* completed
C5_Witness ==
  /\ \A r \in 1..NumRequests : requests[r].pc = "done" /\ requests[r].hash = HashPool[1]
  /\ \E r1, r2 \in 1..NumRequests : requests[r1].sender # requests[r2].sender
  /\ \A r \in 1..NumRequests : isValidInstitution(requests[r].sender)
  /\ Cardinality({r \in 1..NumRequests : requests[r].result = HashExists}) = NumRequests - 1

\* C6: verifyCertificate(id) reverts with "Certificate does not exist" exactly
\* when id is 0 or above the number of issued certificates; for an issued id it
\* is Invalid exactly when the certificate's isValid flag is false or its
\* issuing institution is inactive at the time of the call; in every other case
\* it returns the record as it was written at issuance.
C6_VerifyOutcomes ==
  lastCall.op = "verifyCertificate" =>
    LET id == lastCall.id
        issued == id \in 1..Len(issuedLog)
    IN /\ lastCall.result \in NotFound <=> ~issued
       /\ issued =>
            /\ lastCall.result \in Invalid <=>
                 (\/ ~certificates[id].isValid
                  \/ ~institutions[issuedLog[id].institution].isActive)
            /\ lastCall.result \notin Invalid =>
                 /\ lastCall.result = OK
                 /\ lastCall.ret = issuedLog[id]

\* C6 witness: the second certificate verifies and comes back as issued while
\* the first one is revoked
C6_Witness ==
  /\ lastCall.op = "verifyCertificate"
  /\ lastCall.result = OK
  /\ lastCall.id = 2
  /\ lastCall.ret.certificateHash # ""
  /\ 1 \in revokedIds

\* C7: while an institution is inactive, verifyCertificate is Invalid for every
\* certificate it issued, revoked or not, and deactivation does not touch the
\* isValid flags: a flag is false only if a revoke of that id succeeded.
C7_LiveInstitutionStatus ==
  /\ \A id \in 1..Len(issuedLog) :
       /\ ~institutions[issuedLog[id].institution].isActive
            => VerifyOutcome(id) \in Invalid
       /\ certificates[id].isValid <=> id \notin revokedIds
  /\ (/\ lastCall.op = "verifyCertificate"
      /\ lastCall.id \in 1..Len(issuedLog)
      /\ ~institutions[issuedLog[lastCall.id].institution].isActive)
       => lastCall.result \in Invalid

\* C7 witness: a never revoked certificate of a deactivated institution fails
\* to verify with its flag still true
C7_Witness ==
  /\ lastCall.op = "verifyCertificate"
  /\ lastCall.result = InstitutionNotActive
  /\ certificates[lastCall.id].isValid
  /\ lastCall.id \notin revokedIds
  /\ institutions[certificates[lastCall.id].institution].isRegistered

\* C8 as stated: a revoke of an existing certificate by anyone but its issuer
\* reverts with "Only issuing institution can revoke" (Forbidden).
C8_Original ==
  (/\ lastCall.op = "revokeCertificate"
   /\ lastCall.id \in 1..Len(issuedLog)
   /\ issuedLog[lastCall.id].institution # lastCall.sender)
    => /\ lastCall.result \in Forbidden
       /\ certificates[lastCall.id].isValid <=> lastCall.id \notin revokedIds

\* C8 amended: a revoke of an existing certificate by anyone but its issuer
\* never succeeds and leaves the flag as it was (false only after a successful
\* revoke); it reverts with "Only issuing institution can revoke" when the actor
\* is a registered, active institution and with "Not a registered or active
\* institution" when the actor is not (owner, recipient, unregistered or
\* deactivated identity).
C8_OnlyIssuerRevokes ==
  (/\ lastCall.op = "revokeCertificate"
   /\ lastCall.id \in 1..Len(issuedLog)
   /\ issuedLog[lastCall.id].institution # lastCall.sender)
    => /\ lastCall.result # OK
       /\ IF institutions[lastCall.sender].isRegistered
             /\ institutions[lastCall.sender].isActive
          THEN lastCall.result \in Forbidden
          ELSE lastCall.result \in Unauthorized
       /\ certificates[lastCall.id].isValid <=> lastCall.id \notin revokedIds

\* C8 witness: another registered, active institution is refused the revoke of
\* a valid certificate
C8_Witness ==
  /\ lastCall.op = "revokeCertificate"
  /\ lastCall.result = OnlyIssuer
  /\ certificates[lastCall.id].isValid
  /\ certificates[lastCall.id].institution # lastCall.sender
  /\ isValidInstitution(lastCall.sender)

\* C9 as stated: a revoke fails in exactly three ways (NotFound for an unknown
\* id, Forbidden when the actor is not the issuer, AlreadyRevoked when the flag
\* is already false) and succeeds in every other case; a revoke by the issuer
\* of a certificate revoked before yields AlreadyRevoked.
C9_Original ==
  [][(lastCall'.op = "revokeCertificate" /\ lastCall' # lastCall) =>
       LET s == lastCall'.sender
           id == lastCall'.id
       IN /\ lastCall'.result =
               IF id \notin 1..Len(issuedLog) THEN DoesNotExist
               ELSE IF issuedLog[id].institution # s THEN OnlyIssuer
               ELSE IF id \in revokedIds THEN AlreadyRevoked
               ELSE OK
          /\ lastCall'.result = OK => ~certificates'[id].isValid]_vars

\* C9 amended: a revoke fails in exactly four ways, checked in this order:
\* NotFound for an unknown id, Unauthorized when the actor is not a registered,
\* active institution, Forbidden when the actor is not the issuer,
\* AlreadyRevoked when a revoke of the id succeeded before; in every other case
\* it succeeds and sets the flag to false; a failed revoke changes nothing.
C9_RevokeOutcomes ==
  [][(lastCall'.op = "revokeCertificate" /\ lastCall' # lastCall) =>
       LET s == lastCall'.sender
           id == lastCall'.id
       IN /\ lastCall'.result =
               IF id \notin 1..Len(issuedLog) THEN DoesNotExist
               ELSE IF ~(institutions[s].isRegistered /\ institutions[s].isActive)
                 THEN NotRegisteredOrActive
               ELSE IF issuedLog[id].institution # s THEN OnlyIssuer
               ELSE IF id \in revokedIds THEN AlreadyRevoked
               ELSE OK
          /\ lastCall'.result = OK =>
               /\ ~certificates'[id].isValid
               /\ \A j \in CertIds \ {id} : certificates'[j] = certificates[j]
          /\ lastCall'.result # OK => UNCHANGED ledger]_vars

\* C9 witness: the issuer revokes a second time and gets AlreadyRevoked
C9_Witness ==
  /\ lastCall.op = "revokeCertificate"
  /\ lastCall.result = AlreadyRevoked
  /\ lastCall.id \in revokedIds
  /\ certificates[lastCall.id].institution = lastCall.sender

\* C10: a registerInstitution call of the owner reverts with "Institution
\* already registered" when the address is registered (active or deactivated),
\* with an InvalidInput revert when the address is zero, or when the address is
\* not registered and the name or the registration number is empty; a reverted
\* call leaves the directory unchanged; in every other case the call succeeds
\* and the institution is at once registered and active.
C10_RegisterOutcomes ==
  [][(/\ lastCall'.op = "registerInstitution"
      /\ lastCall' # lastCall
      /\ lastCall'.sender = owner) =>
       LET a == lastCall'.addr
           emptyField == lastCall'.name = "" \/ lastCall'.registrationNumber = ""
       IN /\ institutions[a].isRegistered => lastCall'.result = AlreadyRegistered
          /\ (a = ZeroAddress \/ (~institutions[a].isRegistered /\ emptyField))
               => lastCall'.result \in InvalidInput
          /\ (a # ZeroAddress /\ ~institutions[a].isRegistered /\ ~emptyField)
               => lastCall'.result = OK
          /\ lastCall'.result # OK => institutions' = institutions
          /\ lastCall'.result = OK =>
               /\ institutions'[a].isRegistered
               /\ institutions'[a].isActive
               /\ institutions'[a].name = lastCall'.name
               /\ institutions'[a].registrationNumber = lastCall'.registrationNumber
               /\ \A b \in Address \ {a} : institutions'[b] = institutions[b]]_vars

\* C10 witness: the owner registers a deactivated institution again and is
\* refused
C10_Witness ==
  /\ lastCall.op = "registerInstitution"
  /\ lastCall.sender = owner
  /\ lastCall.result = AlreadyRegistered
  /\ institutions[lastCall.addr].isRegistered
  /\ ~institutions[lastCall.addr].isActive

\* C11: the directory changes only in a successful registerInstitution or
\* setInstitutionStatus call made by the owner; either call made by any other
\* account reverts with "Ownable: caller is not the owner" and leaves the
\* directory as it was, so no account makes itself a registered, active
\* institution.
C11_OnlyOwnerWritesDirectory ==
  [][/\ institutions' # institutions
          => /\ lastCall'.op \in {"registerInstitution", "setInstitutionStatus"}
             /\ lastCall'.sender = owner
             /\ lastCall'.result = OK
     /\ (/\ lastCall'.op \in {"registerInstitution", "setInstitutionStatus"}
         /\ lastCall' # lastCall
         /\ lastCall'.sender # owner)
          => /\ lastCall'.result = NotOwner
             /\ institutions' = institutions]_vars

\* C11 witness: an unregistered account tries to register itself with a name
\* and a registration number and is refused
C11_Witness ==
  /\ lastCall.op = "registerInstitution"
  /\ lastCall.sender # owner
  /\ lastCall.addr = lastCall.sender
  /\ lastCall.name # ""
  /\ lastCall.registrationNumber # ""
  /\ lastCall.result = NotOwner
  /\ ~institutions[lastCall.sender].isRegistered

\* C12: a setInstitutionStatus call of the owner reverts with "Institution not
\* registered" exactly when the address is not registered and succeeds
\* otherwise; after a successful call the status is the value passed, and the
\* same call made again succeeds and leaves the directory exactly as the first
\* call left it.
C12_SetStatusIdempotent ==
  (lastCall.op = "setInstitutionStatus" /\ lastCall.sender = owner) =>
    /\ lastCall.result \in {OK, NotRegistered}
    /\ lastCall.result = NotRegistered <=> ~institutions[lastCall.addr].isRegistered
    /\ lastCall.result = OK =>
         /\ institutions[lastCall.addr].isActive = lastCall.flag
         /\ SetStatusOutcome(lastCall.sender, lastCall.addr) = OK
         /\ InstitutionsAfterSetStatus(lastCall.addr, lastCall.flag) = institutions

\* C12 witness: the owner has deactivated an institution that issued a
\* certificate
C12_Witness ==
  /\ lastCall.op = "setInstitutionStatus"
  /\ lastCall.sender = owner
  /\ lastCall.result = OK
  /\ ~lastCall.flag
  /\ ~institutions[lastCall.addr].isActive
  /\ institutionCertificates[lastCall.addr] # << >>

\* C13: in every step, an institution that is registered stays registered and
\* keeps its name, registration number and registeredAt; only isActive of a
\* registered institution changes.
C13_InstitutionRecordKept ==
  [][\A a \in Address :
       institutions[a].isRegistered =>
         /\ institutions'[a].isRegistered
         /\ institutions'[a].name = institutions[a].name
         /\ institutions'[a].registrationNumber = institutions[a].registrationNumber
         /\ institutions'[a].registeredAt = institutions[a].registeredAt]_vars

\* C13 witness: a deactivated institution, registered in an earlier block, is
\* registered again and the call is refused
C13_Witness ==
  /\ lastCall.op = "registerInstitution"
  /\ lastCall.sender = owner
  /\ lastCall.result = AlreadyRegistered
  /\ institutions[lastCall.addr].isRegistered
  /\ ~institutions[lastCall.addr].isActive
  /\ institutions[lastCall.addr].registeredAt < now

\* C14: verifyCertificateByHash(h) reverts with "Certificate not found" when no
\* certificate was issued with fingerprint h, and otherwise ends exactly as
\* verifyCertificate does on the id that was issued with h: the same revert on
\* a revoked certificate or an inactive issuer, the same record on success.
C14_ByHashDelegates ==
  lastCall.op = "verifyCertificateByHash" =>
    LET ids == {k \in 1..Len(issuedLog) : issuedLog[k].certificateHash = lastCall.hash}
    IN /\ ids = {} => lastCall.result = HashNotFound /\ lastCall.result \in NotFound
       /\ \A id \in ids :
            /\ lastCall.result = VerifyOutcome(id)
            /\ lastCall.ret = VerifyReturn(id)

\* C14 witness: the fingerprint of the second certificate is looked up while
\* its issuer is inactive
C14_Witness ==
  /\ lastCall.op = "verifyCertificateByHash"
  /\ certificateHashToId[lastCall.hash] = 2
  /\ certificates[2].isValid
  /\ lastCall.result = InstitutionNotActive
  /\ lastCall.result \in Invalid

\* the number of positions of list l that hold id
Occurrences(l, id) == Cardinality({i \in 1..Len(l) : l[i] = id})

\* list l is in strictly increasing order
Increasing(l) == \A i, j \in 1..Len(l) : i < j => l[i] < l[j]

\* C15: in every state, with n = certificateIds, every id in 1..n has its
\* record under that id, its fingerprint indexed to it, and occurs exactly once
\* in the list of its recipient and exactly once in the list of its institution
\* and in no other list; every list is in increasing id order; and nothing
\* beyond n is stored or indexed.
C15_IndexesConsistent ==
  /\ \A id \in 1..certificateIds :
       LET c == certificates[id] IN
       /\ c.id = id
       /\ c.certificateHash # ""
       /\ certificateHashToId[c.certificateHash] = id
       /\ \A a \in Address :
            /\ Occurrences(recipientCertificates[a], id) = IF a = c.recipient THEN 1 ELSE 0
            /\ Occurrences(institutionCertificates[a], id) = IF a = c.institution THEN 1 ELSE 0
  /\ \A a \in Address :
       /\ Increasing(recipientCertificates[a])
       /\ Increasing(institutionCertificates[a])
       /\ \A i \in 1..Len(recipientCertificates[a]) :
            recipientCertificates[a][i] \in 1..certificateIds
       /\ \A i \in 1..Len(institutionCertificates[a]) :
            institutionCertificates[a][i] \in 1..certificateIds
  /\ \A id \in CertIds \ (1..certificateIds) : certificates[id] = NoCertificate
  /\ \A h \in Hashes : certificateHashToId[h] \in 0..certificateIds

\* C15 witness: two institutions have each issued one certificate to the same
\* recipient
C15_Witness ==
  /\ certificateIds = 2
  /\ recipientCertificates[student] = <<1, 2>>
  /\ certificates[1].institution # certificates[2].institution
  /\ institutionCertificates[certificates[2].institution] = <<2>>

\* C16: in every step the record of an issued certificate stays as it is,
\* except that a successful revokeCertificate of that id sets its isValid flag
\* to false and nothing else; a verifyCertificate or verifyCertificateByHash
\* call leaves every ledger variable unchanged, and a revokeCertificate call
\* leaves the directory, the indexes, the counter and every other certificate
\* unchanged.
C16_RecordWriteOnce ==
  [][/\ \A id \in 1..certificateIds :
          \/ certificates'[id] = certificates[id]
          \/ /\ lastCall'.op = "revokeCertificate"
             /\ lastCall'.id = id
             /\ lastCall'.result = OK
             /\ certificates'[id] = [certificates[id] EXCEPT !.isValid = FALSE]
     /\ (/\ lastCall'.op \in {"verifyCertificate", "verifyCertificateByHash"}
         /\ lastCall' # lastCall)
          => ledger' = ledger
     /\ (lastCall'.op = "revokeCertificate" /\ lastCall' # lastCall)
          => /\ UNCHANGED <<institutions, certificateHashToId, recipientCertificates,
                            institutionCertificates, certificateIds>>
             /\ \A id \in CertIds \ {lastCall'.id} :
                  certificates'[id] = certificates[id]]_vars

\* C16 witness: the second certificate has been revoked: its record is the one
\* written at issuance with the flag false, and the first is still valid
C16_Witness ==
  /\ lastCall.op = "revokeCertificate"
  /\ lastCall.result = OK
  /\ lastCall.id = 2
  /\ certificates[2] = [issuedLog[2] EXCEPT !.isValid = FALSE]
  /\ certificates[1] = issuedLog[1]

\* sequence s is the beginning of sequence t, entry for entry
IsPrefix(s, t) ==
  /\ Len(s) <= Len(t)
  /\ \A i \in 1..Len(s) : s[i] = t[i]

\* the calls of POST /verify/:id on certificate id that were answered 200
Recorded(id) ==
  {c \in DOMAIN routeCalls :
     /\ routeCalls[c].route = "verify"
     /\ routeCalls[c].certificateId = id
     /\ routeCalls[c].status = Success}

\* C17: a call of POST /verify/:id is answered 200, with its entry pushed and
\* the counter and lastVerifiedAt written, only if the contract's
\* verifyCertificate succeeds on that certificate when the handler reads the
\* document or when it saves it: never for a certificate that the contract
\* holds revoked, or of an inactive institution, or does not hold, all through
\* the call.
C17_RecordedOnlyIfLedgerValid ==
  [][\A c \in DOMAIN routeCalls :
       (/\ routeCalls'[c].route = "verify"
        /\ routeCalls'[c].status = Success
        /\ routeCalls[c].status # Success)
         => \/ routeCalls[c].onLedger = OK
            \/ VerifyOutcome(routeCalls[c].certificateId) = OK]_vars

\* C18: in every step, for every certificate, verificationCount does not
\* decrease and the verifiedBy list keeps every entry it had, unchanged and
\* in place.
C18_AuditAppendOnly ==
  [][\A id \in DOMAIN mirror :
       /\ id \in DOMAIN mirror'
       /\ mirror'[id].verificationCount >= mirror[id].verificationCount
       /\ IsPrefix(mirror[id].verifiedBy, mirror'[id].verifiedBy)]_vars

\* C19: in every state, for every certificate, verificationCount is the
\* number of POST /verify/:id calls on it answered 200 and the number of
\* entries of verifiedBy, and lastVerifiedAt is the verifiedAt of the last
\* entry.
C19_NoLostVerification ==
  \A id \in DOMAIN mirror :
    LET k == Cardinality(Recorded(id)) IN
    /\ mirror[id].verificationCount = k
    /\ Len(mirror[id].verifiedBy) = k
    /\ k > 0 => mirror[id].lastVerifiedAt = mirror[id].verifiedBy[k].verifiedAt

\* C20: a call of the issue route whose contract transaction succeeded, so
\* that its certificate is in the contract, is answered 201 whether or not
\* the document was stored.
C20_IssuedIsReported ==
  \A c \in DOMAIN routeCalls :
    (/\ routeCalls[c].route = "issue"
     /\ routeCalls[c].pc = "done"
     /\ routeCalls[c].certificateId # 0
     /\ certificates[routeCalls[c].certificateId].certificateHash = routeCalls[c].hash)
      => routeCalls[c].status = Created

\* C27: an issueCertificate call is rejected exactly when its caller is not a
\* registered, active institution, its recipient is the zero address, its
\* fingerprint is empty or its fingerprint was issued before; a rejected call
\* reverts as Unauthorized, InvalidInput or DuplicateContent and leaves every
\* ledger variable, the counter included, as it was; every other call
\* succeeds with the id that follows the last issued one.
C27_RejectedIssueWritesNothing ==
  [][(lastCall'.op = "issueCertificate" /\ lastCall' # lastCall) =>
       LET rejected ==
             \/ ~isValidInstitution(lastCall'.sender)
             \/ lastCall'.addr = ZeroAddress
             \/ lastCall'.hash = ""
             \/ \E k \in 1..Len(issuedLog) :
                  issuedLog[k].certificateHash = lastCall'.hash
       IN /\ rejected =>
               /\ lastCall'.result \in Unauthorized \cup InvalidInput \cup DuplicateContent
               /\ ledger' = ledger
               /\ issuedLog' = issuedLog
          /\ ~rejected =>
               /\ lastCall'.result = OK
               /\ lastCall'.id = Len(issuedLog) + 1
               /\ certificateIds' = certificateIds + 1]_vars

\* C27 witness: after one certificate, another institution is refused the same
\* fingerprint and the counter still stands at one
C27_Witness ==
  /\ lastCall.op = "issueCertificate"
  /\ lastCall.result = HashExists
  /\ certificateIds = 1
  /\ certificateHashToId[lastCall.hash] = 1
  /\ lastCall.sender # certificates[1].institution
  /\ certificates[2] = NoCertificate

\* C28: a successful setInstitutionStatus(I, true) on a deactivated
\* institution I touches no certificate; before it verifyCertificate is Invalid
\* for every certificate of I and I cannot issue; after it verifyCertificate
\* succeeds for exactly the certificates of I whose isValid flag is true, is
\* still "Certificate is not valid" for the revoked ones, and I can issue any
\* fingerprint not yet issued.
C28_ReactivationRestores ==
  [][\A a \in Address :
      (/\ lastCall'.op = "setInstitutionStatus"
       /\ lastCall'.addr = a
       /\ lastCall'.result = OK
       /\ lastCall'.flag
       /\ institutions[a].isRegistered
       /\ ~institutions[a].isActive) =>
       /\ certificates' = certificates
       /\ \A id \in 1..certificateIds :
            certificates[id].institution = a =>
              /\ VerifyOutcome(id) \in Invalid
              /\ (VerifyOutcome(id))' =
                   IF certificates[id].isValid /\ id \notin revokedIds
                   THEN OK ELSE NotValid
       /\ \A h \in Hashes \ {""} :
            certificateHashToId[h] = 0 =>
              /\ IssueOutcome(a, student, h) \in Unauthorized
              /\ (IssueOutcome(a, student, h))' = OK]_vars

\* C28 witness: the institution, deactivated at the start, has been
\* reactivated and has issued a second certificate, which verifies, while the
\* certificate it revoked before the deactivation is still revoked
C28_Witness ==
  /\ lastCall.op = "verifyCertificate"
  /\ lastCall.id = 2
  /\ lastCall.result = OK
  /\ certificates[2].institution = institution
  /\ certificates[1].institution = institution
  /\ 1 \in revokedIds
  /\ VerifyOutcome(1) = NotValid

\* C24: every certificate the contract holds has a certificate type from
\* the enumeration {degree, diploma, certificate, transcript, other}, so that it
\* can be stored in the Certificate collection.
C24_TypeInEnumeration ==
  \A id \in 1..certificateIds :
    certificates[id].certificateType \in CertificateTypes

\* C25: every successful write of the contract (registerInstitution,
\* setInstitutionStatus, issueCertificate, revokeCertificate) emits an event
\* that identifies what changed, and a reverted call emits none.
C25_EveryWriteEmits ==
  lastCall.op \in LedgerWrites =>
    IF lastCall.result = OK
    THEN /\ EventOf(lastCall) # NoEvent
         /\ \/ EventOf(lastCall).address = lastCall.addr
            \/ EventOf(lastCall).id = lastCall.id
    ELSE EventOf(lastCall) = NoEvent

\* certificateData without issuedAt: the content a call of the issue route
\* for :address is asked to certify
Content(address) ==
  <<address, student, RoutePayload("").certificateType,
    RoutePayload("").courseName, RoutePayload("").grade>>

\* the contract's certificates that the issue route produced, each with the
\* :address of its call
IssuedByRoute ==
  {<<institution, 1>>} \cup
  {<<routeCalls[c].user, routeCalls[c].certificateId>> :
     c \in {k \in DOMAIN routeCalls :
              /\ routeCalls[k].route = "issue"
              /\ routeCalls[k].certificateId # 0
              /\ certificates[routeCalls[k].certificateId].certificateHash
                   = routeCalls[k].hash}}

\* C23: of the issue route's calls that carry the same content (institution,
\* recipient, certificate type, course name, grade) at most one produces a
\* certificate in the contract.
C23_ContentIssuedOnce ==
  \A p, q \in IssuedByRoute :
    Content(p[1]) = Content(q[1]) => p[2] = q[2]

\* C26: in every state the verifiedAt values of a certificate's verifiedBy
\* entries are non-decreasing in list order.
C26_HistoryAscending ==
  \A id \in DOMAIN mirror :
    \A i, j \in 1..Len(mirror[id].verifiedBy) :
      i < j => mirror[id].verifiedBy[i].verifiedAt <= mirror[id].verifiedBy[j].verifiedAt

\* C22: while the Certificate collection holds a certificate as issued and
\* valid that the contract holds revoked or does not hold, no call of
\* POST /verify/:id passes the validity check for it: every handler that went
\* on to record a verification read a certificate the contract did not hold
\* revoked or unknown at that moment.
C22_LedgerWins ==
  \A c \in DOMAIN routeCalls :
    (/\ routeCalls[c].route = "verify"
     /\ routeCalls[c].pc = "save" \/ routeCalls[c].status = Success)
      => routeCalls[c].onLedger \notin {NotValid, DoesNotExist}

\* C29: in every state each document of the Certificate collection has a
\* certificateId that the contract holds, with the document's fingerprint,
\* issuer and recipient; its status is 'revoked' exactly when its
\* verification.isValid is false; and it is marked revoked only if the
\* contract's revokeCertificate of that id has succeeded.
C29_MirrorNotAhead ==
  \A id \in DOMAIN mirror :
    /\ id \in 1..certificateIds
    /\ certificates[id].certificateHash = mirror[id].hash
    /\ certificates[id].institution = mirror[id].institution
    /\ certificates[id].recipient = mirror[id].recipient
    /\ mirror[id].status = "revoked" <=> ~mirror[id].isValid
    /\ mirror[id].status = "revoked" => id \in revokedIds

\* C21: a listing call that is answered 200 returns an entry for every
\* certificate id the contract listed for the address: the returned list is
\* never shorter than the reported count.
C21_ListingComplete ==
  \A c \in DOMAIN routeCalls :
    (routeCalls[c].route = "list" /\ routeCalls[c].status = Success)
      => Len(routeCalls[c].listed) = Len(routeCalls[c].ids)

\* C30: in the in-memory registry the counter never decreases, the k-th
\* uploaded certificate has the id of counter value k (CERT-000001, ...), so
\* all ids are distinct; no step removes a certificate, changes its id or
\* moves its status from 'revoked' back to 'active'; a verify answers
\* verified only for a certificate whose status is 'active', and not verified
\* for a revoked one; a revoke of a stored certificate leaves it revoked,
\* also when it was revoked already.
C30_MemoryRegistry ==
  [][/\ certificateIdCounter' >= certificateIdCounter
     /\ Len(memoryCertificates') = certificateIdCounter' - 1
     /\ \A k \in DOMAIN memoryCertificates' :
          /\ memoryCertificates'[k].id = CertificateId(k)
          /\ memoryCertificates'[k].status \in {"active", "revoked"}
          /\ \A j \in DOMAIN memoryCertificates' :
               j # k => memoryCertificates'[j].id # memoryCertificates'[k].id
     /\ \A k \in DOMAIN memoryCertificates :
          /\ k \in DOMAIN memoryCertificates'
          /\ memoryCertificates'[k].id = memoryCertificates[k].id
          /\ memoryCertificates[k].status = "revoked"
               => memoryCertificates'[k].status = "revoked"
     /\ memoryReply'.route = "verify" =>
          (memoryReply'.verified <=>
             \E k \in DOMAIN memoryCertificates' :
               /\ memoryCertificates'[k].id = memoryReply'.id
               /\ memoryCertificates'[k].status = "active")
     /\ (memoryReply'.route = "revoke" /\ memoryReply'.status = Success) =>
          \E k \in DOMAIN memoryCertificates' :
            /\ memoryCertificates'[k].id = memoryReply'.id
            /\ memoryCertificates'[k].status = "revoked"]_vars

\* C30 witness: two certificates are stored, the first was revoked, revoked
\* again, and a verify of it has just been answered 400, not verified, while
\* the second is still active
C30_Witness ==
  /\ Len(memoryCertificates) = 2
  /\ memoryCertificates[1].status = "revoked"
  /\ memoryCertificates[2].status = "active"
  /\ memoryCertificates[2].id = "CERT-000002"
  /\ memoryReply = [route |-> "verify", id |-> "CERT-000001",
                    status |-> BadRequest, verified |-> FALSE]

====
